---- MODULE Spec2Model ----
(***************************************************************************)
(* EasyNQL (src/easy_nql.py): natural-language question -> SQL, with the   *)
(* generate -> execute -> repair loop of EasyNQL.chat.                     *)
(*                                                                         *)
(* Strings that the code inspects character by character (LLM completions  *)
(* and SQL) are sequences of one-character strings.  The back-quote is     *)
(* written "BQ" and the line feed "LF"; every other character is itself.   *)
(* Strings the code only tests for truthiness or copies (questions, error  *)
(* texts) are TLA+ strings.  Python's None is NONE for those and NoneSeq   *)
(* for character sequences.                                                *)
(***************************************************************************)
EXTENDS Integers, Sequences, FiniteSets, TLC

VARIABLES
    engine,                     \* self.engine is set (connect was called)
    natural_language_question,  \* self.natural_language_question
    generated_query,            \* self.generated_query
    pc,                         \* where the running operation is blocked
    op,                         \* the public operation running: chat, generate_sql, fix_error_message
    question_arg,               \* chat's natural_language_question parameter
    max_retries,                \* chat's max_retries parameter
    human_response,             \* chat's human_response parameter
    sql_query,                  \* chat's local sql_query
    error,                      \* chat's local error
    rows,                       \* chat's local rows
    column_names,               \* chat's local column_names
    count_tries,                \* chat's local count_tries
    genCalls,                   \* generate_sql calls of this invocation
    execCalls,                  \* SQL strings handed to _execute_sql_query, in order
    execErrors,                 \* the error component each of those calls returned
    repairCalls,                \* fix_error_message calls: arguments and fallback outcome
    repairResults,              \* per backend-reaching repair call: the gate's verdict
    llmCalls,                   \* ollama.chat requests of this invocation, in order
    outcome,                    \* how the operation ended: return value or raised error
    fnName,                     \* pure-function harness: the function applied
    fnArg,                      \* pure-function harness: its argument
    fnRes                       \* pure-function harness: its result

vars == << engine, natural_language_question, generated_query, pc, op,
           question_arg, max_retries, human_response, sql_query, error, rows,
           column_names, count_tries, genCalls, execCalls, execErrors,
           repairCalls, repairResults, llmCalls, outcome, fnName, fnArg, fnRes >>

sessionVars == << natural_language_question, generated_query >>

chatLocals == << question_arg, max_retries, human_response, sql_query, error,
                 rows, column_names, count_tries >>

harnessVars == << fnName, fnArg, fnRes >>

(***************************************************************************)
(* Bounds.                                                                 *)
(***************************************************************************)
\* chat is called with max_retries in 0..MaxRetries
MaxRetries == 3

\* the pure functions are applied to every concatenation of at most MaxTokens tokens
MaxTokens == 4

\* _format_results is applied to at most MaxRows rows of at most MaxCols columns
MaxRows == 2

MaxCols == 2

(***************************************************************************)
(* Python values.                                                          *)
(***************************************************************************)
NONE == "<None>"

NoneSeq == << NONE >>

NoneRows == [some |-> FALSE, val |-> << >>]

SomeRows(v) == [some |-> TRUE, val |-> v]

\* bool(x) of an Optional[str] held as a TLA+ string
Truthy(s) == s # NONE /\ s # ""

\* bool(x) of an Optional[str] held as a character sequence
TruthySeq(s) == s # NoneSeq /\ s # << >>

\* bool(x) of an Optional[list]
TruthyList(l) == l.some /\ l.val # << >>

(***************************************************************************)
(* str methods used by the code.                                           *)
(***************************************************************************)
LF == "LF"

BQ == "BQ"

Whitespace == {" ", LF, "TAB"}

\* str.upper(), character by character
UpperChar(c) ==
    CASE c = "s" -> "S"
      [] c = "e" -> "E"
      [] c = "l" -> "L"
      [] c = "c" -> "C"
      [] c = "t" -> "T"
      [] c = "a" -> "A"
      [] c = "b" -> "B"
      [] c = "x" -> "X"
      [] OTHER -> c

Upper(s) == [i \in 1..Len(s) |-> UpperChar(s[i])]

StartsWith(s, p) == Len(s) >= Len(p) /\ SubSeq(s, 1, Len(p)) = p

RECURSIVE LStrip(_)
LStrip(s) == IF s # << >> /\ Head(s) \in Whitespace THEN LStrip(Tail(s)) ELSE s

RECURSIVE RStrip(_)
RStrip(s) ==
    IF s # << >> /\ s[Len(s)] \in Whitespace THEN RStrip(SubSeq(s, 1, Len(s) - 1)) ELSE s

\* str.strip()
Strip(s) == RStrip(LStrip(s))

\* str.replace(old, ""): leftmost non-overlapping occurrences, one pass
RECURSIVE RemoveAll(_, _)
RemoveAll(s, old) ==
    IF Len(s) < Len(old) THEN s
    ELSE IF StartsWith(s, old) THEN RemoveAll(SubSeq(s, Len(old) + 1, Len(s)), old)
    ELSE << Head(s) >> \o RemoveAll(Tail(s), old)

\* str.split(sep) for a one-character sep: the list of segments, never empty
RECURSIVE SplitAcc(_, _, _)
SplitAcc(s, sep, cur) ==
    IF s = << >> THEN << cur >>
    ELSE IF Head(s) = sep THEN << cur >> \o SplitAcc(Tail(s), sep, << >>)
    ELSE SplitAcc(Tail(s), sep, Append(cur, Head(s)))

Split(s, sep) == SplitAcc(s, sep, << >>)

\* sep.join(parts) for a one-character sep
RECURSIVE Join(_, _)
Join(parts, sep) ==
    IF parts = << >> THEN << >>
    ELSE IF Len(parts) = 1 THEN parts[1]
    ELSE parts[1] \o << sep >> \o Join(Tail(parts), sep)

Marker == << ">", ">", ">" >>

Fence == << BQ, BQ, BQ >>

SELECT == << "S", "E", "L", "E", "C", "T" >>

(***************************************************************************)
(* EasyNQL._clear_llm_response                                             *)
(***************************************************************************)
\* [line for line in lines if not line.startswith("```")]
RECURSIVE DropFenceLines(_)
DropFenceLines(lines) ==
    IF lines = << >> THEN << >>
    ELSE (IF StartsWith(Head(lines), Fence) THEN << >> ELSE << Head(lines) >>)
             \o DropFenceLines(Tail(lines))

\* a plausible slip: the fence lines are dropped before the marker is deleted
clear_llm_response_fence_first(response) ==
    RemoveAll(Join(DropFenceLines(Split(response, LF)), LF), Marker)

clear_llm_response(response) ==
    Join(DropFenceLines(Split(RemoveAll(response, Marker), LF)), LF)

(***************************************************************************)
(* EasyNQL._is_safe_query: [ok, value]; ok = FALSE is the raised ValueError *)
(***************************************************************************)
\* a plausible slip: the test is made on the un-stripped text
is_safe_query_no_strip(query) ==
    LET q == Split(query, ";")[1]
    IN  IF StartsWith(Upper(q), SELECT)
        THEN [ok |-> TRUE, value |-> Strip(q)]
        ELSE [ok |-> FALSE, value |-> NoneSeq]

\* a plausible slip: the accepted text is returned whole, terminator and all
is_safe_query_whole(query) ==
    LET q == Split(query, ";")[1]
    IN  IF StartsWith(Upper(Strip(q)), SELECT)
        THEN [ok |-> TRUE, value |-> Strip(query)]
        ELSE [ok |-> FALSE, value |-> NoneSeq]

is_safe_query(query) ==
    LET q == Split(query, ";")[1]
    IN  IF StartsWith(Upper(Strip(q)), SELECT)
        THEN [ok |-> TRUE, value |-> Strip(q)]
        ELSE [ok |-> FALSE, value |-> NoneSeq]

(***************************************************************************)
(* EasyNQL._format_results: the sentinel string or the list of dicts       *)
(***************************************************************************)
NoResults == [sentinel |-> TRUE, records |-> << >>]

\* a plausible slip: a key that is already in the dict is not overwritten
RECURSIVE row_data_first_wins(_, _, _)
row_data_first_wins(cols, row, n) ==
    IF n = 0 THEN << >>
    ELSE LET d == row_data_first_wins(cols, row, n - 1)
         IN  [k \in DOMAIN d \cup {cols[n]} |-> IF k \in DOMAIN d THEN d[k] ELSE row[n]]

\* {column_names[i]: row[i] for i in range(len(column_names))} after its first
\* n positions: a later position overwrites an earlier one with the same name
RECURSIVE row_data(_, _, _)
row_data(cols, row, n) ==
    IF n = 0 THEN << >>
    ELSE LET d == row_data(cols, row, n - 1)
         IN  [k \in DOMAIN d \cup {cols[n]} |-> IF k = cols[n] THEN row[n] ELSE d[k]]

format_results(rs, cols) ==
    IF ~TruthyList(rs) \/ ~TruthyList(cols)
    THEN NoResults
    ELSE [sentinel |-> FALSE,
          records |-> [r \in 1..Len(rs.val) |-> row_data(cols.val, rs.val[r], Len(cols.val))]]

(***************************************************************************)
(* The collaborators: what the LLM and the database may answer.            *)
(***************************************************************************)
Str_a == << "S", "E", "L", "E", "C", "T", " ", "a" >>

Str_b == << "s", "e", "l", "e", "c", "t", " ", "b" >>

\* response.message.content of ollama.chat for an SQL request
Completions ==
    { << BQ, BQ, BQ, "s", "q", "l", LF >> \o Str_a \o << ";", LF, BQ, BQ, BQ >>,
      << " " >> \o Str_b \o << LF >>,
      << "x", ";" >> \o Str_a,
      << >> }

\* response.message.content of ollama.chat for a human answer
Answers == { "answer" }

\* str(e) of a database fault
ErrorTexts == { "", "e1", "e2" }

NoEngineError == "No database engine is connected."

\* result.fetchall() and list(result.keys()) of a statement that ran
ResultSets ==
    { [rows |-> << >>, cols |-> << "c" >>],
      [rows |-> << << 1 >>, << 2 >> >>, cols |-> << "c" >>] }

\* what _execute_sql_query returns: (rows, column_names, error)
execute_sql_query(eng) ==
    IF ~eng
    THEN { [rows |-> NoneRows, cols |-> NoneRows, error |-> NoEngineError] }
    ELSE { [rows |-> SomeRows(r.rows), cols |-> SomeRows(r.cols), error |-> NONE] :
             r \in ResultSets }
         \cup { [rows |-> NoneRows, cols |-> NoneRows, error |-> e] : e \in ErrorTexts }

\* the questions chat and generate_sql are called with
Questions == { "q1", "" }

\* the arguments fix_error_message is called with directly
FixQuestions == { NONE, "", "q2" }

FixQueries == { NoneSeq, << >>, << "S", "E", "L", "E", "C", "T", " ", "x" >> }

(***************************************************************************)
(* Requests to ollama.chat: the values embedded in the user prompt.        *)
(***************************************************************************)
GeneratePrompt(q) ==
    [kind |-> "generate", question |-> q, error |-> NONE, sql_query |-> NoneSeq,
     results |-> NoResults]

FixPrompt(q, e, s) ==
    [kind |-> "fix", question |-> q, error |-> e, sql_query |-> s,
     results |-> NoResults]

HumanPrompt(q, s, res) ==
    [kind |-> "human", question |-> q, error |-> NONE, sql_query |-> s,
     results |-> res]

(***************************************************************************)
(* How an operation ends.                                                  *)
(***************************************************************************)
NoOutcome == [kind |-> "none", msg |-> NONE, value |-> << >>]

Return(v) == [kind |-> "return", msg |-> NONE, value |-> v]

\* raise ValueError(msg); value carries what the message embeds
Raise(m, v) == [kind |-> "raise", msg |-> m, value |-> v]

Elapsed == "execution_time"

Idle == pc \in {"idle", "done"}

(***************************************************************************)
(* fix_error_message, lines 163-171: the fallback to the session state.    *)
(***************************************************************************)
\* a plausible slip: a missing argument fails the call even when the session
\* state holds the value
fix_context_no_fallback(q, s) ==
    IF ~TruthySeq(s)
    THEN [ok |-> FALSE, msg |-> "sql_query missing", question |-> NONE, sql_query |-> NoneSeq]
    ELSE IF ~Truthy(q)
    THEN [ok |-> FALSE, msg |-> "question missing", question |-> NONE, sql_query |-> NoneSeq]
    ELSE [ok |-> TRUE, msg |-> NONE, question |-> q, sql_query |-> s]

fix_context(q, s) ==
    IF ~TruthySeq(s) /\ ~TruthySeq(generated_query)
    THEN [ok |-> FALSE, msg |-> "sql_query missing", question |-> NONE, sql_query |-> NoneSeq]
    ELSE IF ~Truthy(q) /\ ~Truthy(natural_language_question)
    THEN [ok |-> FALSE, msg |-> "question missing", question |-> NONE, sql_query |-> NoneSeq]
    ELSE [ok |-> TRUE, msg |-> NONE,
          question |-> IF Truthy(q) THEN q ELSE natural_language_question,
          sql_query |-> IF TruthySeq(s) THEN s ELSE generated_query]

\* the record of one fix_error_message call: its arguments, the session state
\* it found, the SQL chat had just executed, and what lines 163-171 made of them
RepairCall(e, q, s, ctx, executed) ==
    [error |-> e, arg_question |-> q, arg_sql_query |-> s,
     session_question |-> natural_language_question,
     session_query |-> generated_query,
     executed |-> executed,
     ok |-> ctx.ok, question |-> ctx.question, sql_query |-> ctx.sql_query]

(***************************************************************************)
(* chat, lines 247-279: what follows the retry loop.  The parameters are   *)
(* the locals and the request log as they stand when the loop is left.     *)
(***************************************************************************)
\* a plausible slip: any error still held raises, whatever the counter
ExhaustedAnyError(cnt, err) == Truthy(err)

\* a plausible slip: the test forgets `and error`
ExhaustedAtBudget(cnt, err) == cnt = max_retries

Exhausted(cnt, err) == cnt = max_retries /\ Truthy(err)

\* a plausible slip: the attempts are reported, not the retries
BundleAttempts(sq, res, cnt) ==
    [query |-> sq, results |-> res, execution_time |-> Elapsed, retries |-> cnt + 1]

Bundle(sq, res, cnt) ==
    [query |-> sq, results |-> res, execution_time |-> Elapsed, retries |-> cnt]

HumanBundle(sq, res, ans, cnt) ==
    [query |-> sq, result |-> res, answer |-> ans, execution_time |-> Elapsed,
     retries |-> cnt]

AfterLoop(sq, err, rs, cols, cnt, calls, gq) ==
    IF Exhausted(cnt, err)
    THEN /\ outcome' = Raise("exhausted", [attempts |-> max_retries, query |-> sq, error |-> err])
         /\ pc' = "done"
         /\ llmCalls' = calls
    ELSE IF human_response
    THEN IF ~Truthy(natural_language_question)
         THEN /\ outcome' = Raise("question missing", << >>)
              /\ pc' = "done"
              /\ llmCalls' = calls
         ELSE /\ outcome' = outcome
              /\ pc' = "human_wait"
              /\ llmCalls' = Append(calls, HumanPrompt(natural_language_question,
                                                       gq,
                                                       format_results(rs, cols)))
    ELSE /\ outcome' = Return(Bundle(sq, format_results(rs, cols), cnt))
         /\ pc' = "done"
         /\ llmCalls' = calls

(***************************************************************************)
(* chat, line 234: the loop test, then either the next execution (line     *)
(* 235) or the code after the loop.                                        *)
(***************************************************************************)
\* a plausible slip: an off-by-one loop test
LoopTestInclusive(cnt) == cnt <= max_retries

LoopTest(cnt) == cnt < max_retries

LoopHead(sq, err, rs, cols, cnt, calls, gq) ==
    IF LoopTest(cnt)
    THEN /\ execCalls' = Append(execCalls, sq)
         /\ pc' = "execute_wait"
         /\ outcome' = outcome
         /\ llmCalls' = calls
    ELSE /\ execCalls' = execCalls
         /\ AfterLoop(sq, err, rs, cols, cnt, calls, gq)

(***************************************************************************)
(* The operations.                                                         *)
(***************************************************************************)
Init ==
    /\ engine = FALSE
    /\ natural_language_question = NONE
    /\ generated_query = NoneSeq
    /\ pc = "idle"
    /\ op = "none"
    /\ question_arg = NONE
    /\ max_retries = 0
    /\ human_response = FALSE
    /\ sql_query = NoneSeq
    /\ error = NONE
    /\ rows = NoneRows
    /\ column_names = NoneRows
    /\ count_tries = 0
    /\ genCalls = 0
    /\ execCalls = << >>
    /\ execErrors = << >>
    /\ repairCalls = << >>
    /\ repairResults = << >>
    /\ llmCalls = << >>
    /\ outcome = NoOutcome
    /\ fnName = "none"
    /\ fnArg = << >>
    /\ fnRes = << >>

\* connect(database_url)
connect ==
    /\ Idle
    /\ ~engine
    /\ engine' = TRUE
    /\ UNCHANGED << sessionVars, pc, op, chatLocals, genCalls, execCalls, execErrors,
                    repairCalls, repairResults, llmCalls, outcome, harnessVars >>

\* a new call starts with fresh locals and an empty record of its calls
FreshCall(name, q, mr, hr) ==
    /\ op' = name
    /\ question_arg' = q
    /\ max_retries' = mr
    /\ human_response' = hr
    /\ sql_query' = NoneSeq
    /\ error' = NONE
    /\ rows' = NoneRows
    /\ column_names' = NoneRows
    /\ count_tries' = 0
    /\ execCalls' = << >>
    /\ execErrors' = << >>
    /\ repairResults' = << >>

\* chat(q, mr, hr) up to the ollama.chat request of generate_sql (lines 223-225, 119-145)
chat_call ==
    \E q \in Questions, mr \in 0..MaxRetries, hr \in BOOLEAN :
        /\ Idle
        /\ FreshCall("chat", q, mr, hr)
        /\ natural_language_question' = q
        /\ genCalls' = 1
        /\ repairCalls' = << >>
        /\ llmCalls' = << GeneratePrompt(q) >>
        /\ outcome' = NoOutcome
        /\ pc' = "generate_wait"
        /\ UNCHANGED << engine, generated_query, harnessVars >>

\* generate_sql(q) called directly, up to its ollama.chat request (lines 119-145)
generate_sql_call ==
    \E q \in Questions :
        /\ Idle
        /\ FreshCall("generate_sql", q, 0, FALSE)
        /\ natural_language_question' = q
        /\ genCalls' = 1
        /\ repairCalls' = << >>
        /\ llmCalls' = << GeneratePrompt(q) >>
        /\ outcome' = NoOutcome
        /\ pc' = "generate_wait"
        /\ UNCHANGED << engine, generated_query, harnessVars >>

\* chat lines 224-227: the ValueError of generate_sql aborts the call
\* a plausible slip: the error is swallowed and chat carries on
GenerationAbortsNever(safe) == FALSE

GenerationAborts(safe) == ~safe.ok

\* the completion arrives: generate_sql lines 147-151, then chat lines 226-235
generate_sql_return ==
    \E c \in Completions :
        LET safe == is_safe_query(clear_llm_response(c))
        IN  /\ pc = "generate_wait"
            /\ generated_query' = c
            /\ IF op = "generate_sql"
               THEN /\ outcome' = IF safe.ok THEN Return(safe.value)
                                  ELSE Raise("non-SELECT", << >>)
                    /\ pc' = "done"
                    /\ UNCHANGED << sql_query, execCalls, llmCalls >>
               ELSE IF GenerationAborts(safe)
               THEN /\ outcome' = Raise("generation failed", << >>)
                    /\ pc' = "done"
                    /\ UNCHANGED << sql_query, execCalls, llmCalls >>
               ELSE /\ sql_query' = safe.value
                    /\ LoopHead(safe.value, NONE, NoneRows, NoneRows, 0, llmCalls, c)
            /\ UNCHANGED << engine, natural_language_question, op, question_arg,
                            max_retries, human_response, error, rows, column_names,
                            count_tries, genCalls, execErrors, repairCalls,
                            repairResults, harnessVars >>

\* a plausible slip: an error kept from the previous iteration is passed on
fix_error_argument_stale(previous, returned) ==
    IF Truthy(previous) THEN previous ELSE returned

\* the error chat passes to fix_error_message (line 239): the one the
\* execution of line 235 just returned, whatever the local held before
fix_error_argument(previous, returned) == returned

\* _execute_sql_query returns: chat lines 235-245, with fix_error_message up to
\* its ollama.chat request (lines 163-200)
execute_return ==
    \E o \in execute_sql_query(engine) :
        LET ctx == fix_context(NONE, NoneSeq)
        IN  /\ pc = "execute_wait"
            /\ rows' = o.rows
            /\ column_names' = o.cols
            /\ error' = o.error
            /\ execErrors' = Append(execErrors, o.error)
            /\ IF Truthy(o.error)
               THEN /\ repairCalls' = Append(repairCalls,
                                            RepairCall(fix_error_argument(error, o.error),
                                                       NONE, NoneSeq, ctx, sql_query))
                    /\ IF ctx.ok
                       THEN /\ llmCalls' = Append(llmCalls,
                                                 FixPrompt(ctx.question,
                                                           fix_error_argument(error, o.error),
                                                           ctx.sql_query))
                            /\ pc' = "fix_wait"
                            /\ outcome' = outcome
                       ELSE AfterLoop(sql_query, o.error, o.rows, o.cols, count_tries, llmCalls,
                                      generated_query)
               ELSE /\ repairCalls' = repairCalls
                    /\ AfterLoop(sql_query, o.error, o.rows, o.cols, count_tries, llmCalls,
                                      generated_query)
            /\ UNCHANGED << engine, sessionVars, op, question_arg, max_retries,
                            human_response, sql_query, count_tries, genCalls, execCalls,
                            repairResults, harnessVars >>

\* fix_error_message(e, q, s) called directly, up to its ollama.chat request
fix_error_message_call ==
    \E e \in ErrorTexts, q \in FixQuestions, s \in FixQueries :
        LET ctx == fix_context(q, s)
        IN  /\ Idle
            /\ FreshCall("fix_error_message", NONE, 0, FALSE)
            /\ genCalls' = 0
            /\ repairCalls' = << RepairCall(e, q, s, ctx, NoneSeq) >>
            /\ IF ctx.ok
               THEN /\ llmCalls' = << FixPrompt(ctx.question, e, ctx.sql_query) >>
                    /\ pc' = "fix_wait"
               ELSE /\ llmCalls' = << >>
                    /\ pc' = "done"
            /\ outcome' = IF ctx.ok THEN NoOutcome ELSE Raise(ctx.msg, << >>)
            /\ UNCHANGED << engine, sessionVars, harnessVars >>

\* the repair completion arrives: fix_error_message lines 202-206, then chat
\* lines 240-243 and the loop test
fix_error_message_return ==
    \E c \in Completions :
        LET safe == is_safe_query(clear_llm_response(c))
        IN  /\ pc = "fix_wait"
            /\ IF op = "fix_error_message"
               THEN /\ outcome' = IF safe.ok THEN Return(safe.value)
                                  ELSE Raise("non-SELECT", << >>)
                    /\ pc' = "done"
                    /\ UNCHANGED << sql_query, count_tries, execCalls, llmCalls >>
               ELSE IF ~safe.ok
               THEN /\ UNCHANGED << sql_query, count_tries, execCalls >>
                    /\ AfterLoop(sql_query, error, rows, column_names, count_tries, llmCalls,
                                 generated_query)
               ELSE /\ sql_query' = safe.value
                    /\ count_tries' = count_tries + 1
                    /\ LoopHead(safe.value, error, rows, column_names, count_tries + 1,
                                llmCalls, generated_query)
            /\ repairResults' = Append(repairResults, safe.ok)
            /\ UNCHANGED << engine, sessionVars, op, question_arg, max_retries,
                            human_response, error, rows, column_names, genCalls,
                            execErrors, repairCalls, harnessVars >>

\* the answer arrives: generate_human_response line 323, then chat lines 266-272
generate_human_response_return ==
    \E a \in Answers :
        /\ pc = "human_wait"
        /\ outcome' = Return(HumanBundle(sql_query, format_results(rows, column_names), a,
                                         count_tries))
        /\ pc' = "done"
        /\ UNCHANGED << engine, sessionVars, op, chatLocals, genCalls, execCalls,
                        execErrors, repairCalls, repairResults, llmCalls, harnessVars >>

Next ==
    \/ connect
    \/ chat_call
    \/ generate_sql_call
    \/ generate_sql_return
    \/ execute_return
    \/ fix_error_message_call
    \/ fix_error_message_return
    \/ generate_human_response_return

Spec == Init /\ [][Next]_vars

\* every backend call (ollama.chat) and every database call that chat or a
\* direct call is waiting for returns
SpecLive ==
    /\ Spec
    /\ WF_vars(generate_sql_return)
    /\ WF_vars(execute_return)
    /\ WF_vars(fix_error_message_return)
    /\ WF_vars(generate_human_response_return)

(***************************************************************************)
(* The pure functions on their own: the argument is any concatenation of   *)
(* at most MaxTokens tokens, and one action applies each function.         *)
(***************************************************************************)
Tokens ==
    { << "S", "E", "L", "E", "C" >>, << "T" >>, << "s", "e", "l", "e", "c", "t" >>,
      << " " >>, << ";" >>, << LF >>, Marker, << ">" >>, Fence, << BQ >> }

RECURSIVE TokenStrings(_)
TokenStrings(n) ==
    IF n = 0 THEN { << >> }
    ELSE LET shorter == TokenStrings(n - 1)
         IN  shorter \cup { p \o t : p \in shorter, t \in Tokens }

InitPure ==
    /\ engine = FALSE
    /\ natural_language_question = NONE
    /\ generated_query = NoneSeq
    /\ pc = "idle"
    /\ op = "none"
    /\ question_arg = NONE
    /\ max_retries = 0
    /\ human_response = FALSE
    /\ sql_query = NoneSeq
    /\ error = NONE
    /\ rows = NoneRows
    /\ column_names = NoneRows
    /\ count_tries = 0
    /\ genCalls = 0
    /\ execCalls = << >>
    /\ execErrors = << >>
    /\ repairCalls = << >>
    /\ repairResults = << >>
    /\ llmCalls = << >>
    /\ outcome = NoOutcome
    /\ fnName = "none"
    /\ fnArg \in TokenStrings(MaxTokens)
    /\ fnRes = << >>

mainVars == << engine, sessionVars, pc, op, chatLocals, genCalls, execCalls, execErrors,
               repairCalls, repairResults, llmCalls, outcome >>

apply_is_safe_query ==
    /\ fnName = "none"
    /\ fnName' = "is_safe_query"
    /\ fnRes' = is_safe_query(fnArg)
    /\ UNCHANGED << mainVars, fnArg >>

apply_clear_llm_response ==
    /\ fnName = "none"
    /\ fnName' = "clear_llm_response"
    /\ fnRes' = clear_llm_response(fnArg)
    /\ UNCHANGED << mainVars, fnArg >>

NextPure ==
    \/ apply_is_safe_query
    \/ apply_clear_llm_response

SpecPure == InitPure /\ [][NextPure]_vars

(***************************************************************************)
(* _format_results on its own: rows and column names are absent, or up to  *)
(* MaxRows rows with one cell per column and up to MaxCols column names,   *)
(* which a result set may repeat.                                          *)
(***************************************************************************)
ColumnNames == { "id", "name" }

Cells == { "1", "a" }

\* the sequences over S of length at most n
RECURSIVE SeqsUpTo(_, _)
SeqsUpTo(S, n) ==
    IF n = 0 THEN { << >> }
    ELSE LET shorter == SeqsUpTo(S, n - 1)
         IN  shorter \cup { Append(q, x) : q \in shorter, x \in S }

\* the sequences over S of length exactly n
SeqsOfLen(S, n) == { q \in SeqsUpTo(S, n) : Len(q) = n }

FormatArgs ==
    { [rows |-> NoneRows, cols |-> NoneRows] }
        \cup UNION { { [rows |-> SomeRows(rs), cols |-> SomeRows(cs)] :
                         rs \in SeqsUpTo(SeqsOfLen(Cells, Len(cs)), MaxRows) } :
                     cs \in SeqsUpTo(ColumnNames, MaxCols) }

InitFormat ==
    /\ engine = FALSE
    /\ natural_language_question = NONE
    /\ generated_query = NoneSeq
    /\ pc = "idle"
    /\ op = "none"
    /\ question_arg = NONE
    /\ max_retries = 0
    /\ human_response = FALSE
    /\ sql_query = NoneSeq
    /\ error = NONE
    /\ rows = NoneRows
    /\ column_names = NoneRows
    /\ count_tries = 0
    /\ genCalls = 0
    /\ execCalls = << >>
    /\ execErrors = << >>
    /\ repairCalls = << >>
    /\ repairResults = << >>
    /\ llmCalls = << >>
    /\ outcome = NoOutcome
    /\ fnName = "none"
    /\ fnArg \in FormatArgs
    /\ fnRes = << >>

apply_format_results ==
    /\ fnName = "none"
    /\ fnName' = "format_results"
    /\ fnRes' = format_results(fnArg.rows, fnArg.cols)
    /\ UNCHANGED << mainVars, fnArg >>

NextFormat == apply_format_results

SpecFormat == InitFormat /\ [][NextFormat]_vars

(***************************************************************************)
(* Properties.                                                             *)
(***************************************************************************)
Last(seq) == seq[Len(seq)]

InChat == op = "chat"

ChatEnded == InChat /\ pc = "done"

\* generate_sql returned a query to chat
GenerationSucceeded == InChat /\ pc # "generate_wait" /\ outcome.msg # "generation failed"

\* an execution "returns an error" when chat's test of line 236 takes it for one
AllExecutionsFailed == \A i \in 1..Len(execErrors) : Truthy(execErrors[i])

\* every failed execution was followed by a repair that returned a query
AllRepairsSucceeded ==
    /\ Len(repairResults) = Len(execErrors)
    /\ \A i \in 1..Len(repairResults) : repairResults[i]

RaisedExhausted == outcome.kind = "raise" /\ outcome.msg = "exhausted"

ReturnedBundle == outcome.kind = "return"

HumanCalls == { i \in 1..Len(llmCalls) : llmCalls[i].kind = "human" }

C2_SuccessOnKth ==
    (InChat /\ execErrors # << >> /\ ~Truthy(Last(execErrors)))
        => LET k == Len(execErrors)
           IN  /\ k <= max_retries
               /\ \A i \in 1..(k - 1) : Truthy(execErrors[i])
               /\ Len(repairCalls) = k - 1
               /\ Len(repairResults) = k - 1
               /\ \A i \in 1..(k - 1) : repairResults[i]
               /\ Len(execCalls) = k
               /\ pc \in {"human_wait", "done"}
               /\ ReturnedBundle => outcome.value.retries = k - 1

C2_Witness ==
    /\ ChatEnded
    /\ Len(execErrors) = 3
    /\ ~Truthy(Last(execErrors))
    /\ ReturnedBundle
    /\ outcome.value.retries = 2

\* C3: when the gate rejects the generator's completion, chat ends with the
\* generation-failure error and has made no execution, no repair call and no
\* human-response request.
C3_GenerationFailure ==
    (InChat /\ pc # "generate_wait" /\ ~is_safe_query(clear_llm_response(generated_query)).ok)
        => /\ pc = "done"
           /\ outcome = Raise("generation failed", << >>)
           /\ execCalls = << >>
           /\ repairCalls = << >>
           /\ llmCalls = << GeneratePrompt(question_arg) >>
           /\ genCalls = 1

C3_Witness ==
    /\ ChatEnded
    /\ max_retries > 0
    /\ human_response
    /\ outcome.msg = "generation failed"
    /\ generated_query # << >>

\* C4: every SQL string handed to the execution adapter has no ';', starts
\* with SELECT when upper-cased, and is what the gate returns for a cleaned
\* completion; the first one is the gated form of the generator's completion.
C4_OnlyGatedSql ==
    InChat =>
        /\ \A i \in 1..Len(execCalls) :
              /\ \A j \in 1..Len(execCalls[i]) : execCalls[i][j] # ";"
              /\ StartsWith(Upper(execCalls[i]), SELECT)
              /\ \E c \in Completions :
                    is_safe_query(clear_llm_response(c)) = [ok |-> TRUE, value |-> execCalls[i]]
        /\ execCalls # << >> =>
              is_safe_query(clear_llm_response(generated_query))
                  = [ok |-> TRUE, value |-> execCalls[1]]

C4_Witness ==
    /\ InChat
    /\ Len(execCalls) = 2
    /\ execCalls[1] # execCalls[2]
    /\ \E j \in 1..Len(generated_query) : generated_query[j] = ";"

(***************************************************************************)
(* The gate and the cleaner, stated by position rather than by the str     *)
(* methods the code uses.                                                  *)
(***************************************************************************)
Min(S) == CHOOSE x \in S : \A y \in S : x <= y

Max(S) == CHOOSE x \in S : \A y \in S : x >= y

\* the text before the first ';', all of it when there is none
BeforeFirstTerminator(str) ==
    LET at == { i \in 1..Len(str) : str[i] = ";" }
    IN  IF at = {} THEN str ELSE SubSeq(str, 1, Min(at) - 1)

\* the text from its first to its last non-whitespace character
Trimmed(str) ==
    LET solid == { i \in 1..Len(str) : str[i] \notin Whitespace }
    IN  IF solid = {} THEN << >> ELSE SubSeq(str, Min(solid), Max(solid))

\* sub occurs in str at position i
OccursAt(sub, str, i) == i + Len(sub) - 1 <= Len(str) /\ SubSeq(str, i, i + Len(sub) - 1) = sub

Occurs(sub, str) == \E i \in 1..Len(str) : OccursAt(sub, str, i)

\* a line of str starts with the code-fence marker
HasFenceLine(str) ==
    \E i \in 1..Len(str) : OccursAt(Fence, str, i) /\ (i = 1 \/ str[i - 1] = LF)

\* C5: the gate accepts S exactly when the text before the first ';',
\* trimmed and upper-cased, starts with SELECT; it then returns that trimmed
\* text, and otherwise raises (so it raises when the trimmed text is empty).
C5_GateDecision ==
    fnName = "is_safe_query" =>
        LET text == Trimmed(BeforeFirstTerminator(fnArg))
        IN  /\ fnRes.ok <=> StartsWith(Upper(text), SELECT)
            /\ fnRes.ok => fnRes.value = text
            /\ text = << >> => ~fnRes.ok

C5_Witness ==
    /\ fnName = "is_safe_query"
    /\ fnRes.ok
    /\ Occurs(<< ";" >>, fnArg)
    /\ fnArg[1] \in Whitespace
    /\ fnRes.value # BeforeFirstTerminator(fnArg)

C7_ExhaustedPayload ==
    (ChatEnded /\ engine /\ RaisedExhausted) =>
        /\ outcome.value.attempts = max_retries
        /\ outcome.value.query = Last(execCalls)
        /\ outcome.value.error = Last(execErrors)

\* C8 as stated (for a budget of at least one execution): a returned bundle has the fields query, results,
\* execution_time and retries, plus answer exactly when a human answer was
\* requested; without the request no human-response call is made.
C8_BundleShape ==
    (ChatEnded /\ max_retries >= 1 /\ ReturnedBundle) =>
        /\ DOMAIN outcome.value =
              {"query", "results", "execution_time", "retries"}
                  \cup (IF human_response THEN {"answer"} ELSE {})
        /\ ~human_response => HumanCalls = {}

\* C9: fix_error_message without an sql_query while the session holds no
\* generated query, or without a question while the session holds none,
\* raises before any ollama.chat request and leaves the session state as it
\* was; a value missing only from the arguments is taken from the session.
C9_RepairContext ==
    (op = "fix_error_message") =>
        LET call == repairCalls[1]
            noQuery == ~TruthySeq(call.arg_sql_query) /\ ~TruthySeq(call.session_query)
            noQuestion == ~Truthy(call.arg_question) /\ ~Truthy(call.session_question)
        IN  /\ natural_language_question = call.session_question
            /\ generated_query = call.session_query
            /\ (noQuery \/ noQuestion) =>
                  /\ pc = "done"
                  /\ outcome.kind = "raise"
                  /\ outcome.msg \in {"sql_query missing", "question missing"}
                  /\ llmCalls = << >>
            /\ ~(noQuery \/ noQuestion) =>
                  /\ Len(llmCalls) = 1
                  /\ llmCalls[1].kind = "fix"
                  /\ ~TruthySeq(call.arg_sql_query) =>
                        llmCalls[1].sql_query = call.session_query
                  /\ ~Truthy(call.arg_question) =>
                        llmCalls[1].question = call.session_question

C9_Witness ==
    /\ op = "fix_error_message"
    /\ pc = "done"
    /\ outcome.msg = "sql_query missing"
    /\ Truthy(natural_language_question)
    /\ repairCalls[1].arg_question = "q2"

C9_WitnessFallback ==
    /\ op = "fix_error_message"
    /\ pc = "fix_wait"
    /\ repairCalls[1].arg_sql_query = NoneSeq
    /\ repairCalls[1].arg_question = NONE
    /\ llmCalls[1].sql_query = generated_query

\* C10: cleaning a cleaned text changes nothing; a cleaned text holds no
\* '>>>' marker and no line that starts with a code fence.
C10_CleanerIdempotent ==
    fnName = "clear_llm_response" =>
        /\ clear_llm_response(fnRes) = fnRes
        /\ ~Occurs(Marker, fnRes)
        /\ ~HasFenceLine(fnRes)

C10_Witness ==
    /\ fnName = "clear_llm_response"
    /\ Occurs(Marker, fnArg)
    /\ HasFenceLine(RemoveAll(fnArg, Marker))
    /\ ~HasFenceLine(fnArg)
    /\ fnRes # fnArg

(***************************************************************************)
(* The formatter, stated by position.                                      *)
(***************************************************************************)
\* the last position of cols that carries the name c
LastPosition(cols, c) == Max({ i \in 1..Len(cols) : cols[i] = c })

FormatEmpty == ~TruthyList(fnArg.rows) \/ ~TruthyList(fnArg.cols)

\* C11 as stated: with rows or column names empty or absent the result is the
\* sentinel; otherwise there is one record per row, in row order, and the
\* record of row r maps the i-th column name to r[i] for every position i.
C11_RecordPerPosition ==
    fnName = "format_results" =>
        IF FormatEmpty
        THEN fnRes = NoResults
        ELSE /\ ~fnRes.sentinel
             /\ Len(fnRes.records) = Len(fnArg.rows.val)
             /\ \A r \in 1..Len(fnArg.rows.val) : \A i \in 1..Len(fnArg.cols.val) :
                   fnRes.records[r][fnArg.cols.val[i]] = fnArg.rows.val[r][i]

\* C11 amended: with rows or column names empty or absent the result is the
\* sentinel; otherwise there is one record per row, in row order, whose keys
\* are the column names and which maps each name to the row's cell at the
\* last position carrying that name, so the i-th name maps to r[i] whenever
\* no later column repeats it.
C11_RecordLastPosition ==
    fnName = "format_results" =>
        IF FormatEmpty
        THEN fnRes = NoResults
        ELSE LET cols == fnArg.cols.val
                 rs == fnArg.rows.val
             IN  /\ ~fnRes.sentinel
                 /\ Len(fnRes.records) = Len(rs)
                 /\ \A r \in 1..Len(rs) :
                       /\ DOMAIN fnRes.records[r] = { cols[i] : i \in 1..Len(cols) }
                       /\ \A i \in 1..Len(cols) :
                             /\ fnRes.records[r][cols[i]] = rs[r][LastPosition(cols, cols[i])]
                             /\ (\A j \in (i + 1)..Len(cols) : cols[j] # cols[i])
                                   => fnRes.records[r][cols[i]] = rs[r][i]

C11_Witness ==
    /\ fnName = "format_results"
    /\ ~fnRes.sentinel
    /\ Len(fnRes.records) = 2
    /\ fnArg.cols.val = << "id", "name" >>
    /\ fnArg.rows.val[1] # fnArg.rows.val[2]
    /\ fnRes.records[2] = [id |-> "1", name |-> "a"]

(***************************************************************************)
(* The calls chat makes, read from its record of them.                     *)
(***************************************************************************)
GenerateRequests == { i \in 1..Len(llmCalls) : llmCalls[i].kind = "generate" }

\* C12 as stated, the embedded text being read through the cleaner and the
\* gate (for a connected engine and a non-empty question): in every repair
\* call chat makes, the SQL embedded in the repair prompt as the failing
\* query is the SQL whose execution just returned the error.
C12_PromptCarriesFailingQuery ==
    (InChat /\ engine /\ question_arg # "") =>
        \A i \in 1..Len(repairCalls) :
            repairCalls[i].ok =>
                is_safe_query(clear_llm_response(repairCalls[i].sql_query)).value
                    = repairCalls[i].executed

\* C13 as stated (for a non-empty question): after a successful
\* generate_sql(question) the session's question is question and the
\* session's generated query is the gated SQL string that generate_sql
\* returned.
C13_GeneratorRecords ==
    (op = "generate_sql" /\ question_arg # "" /\ pc = "done" /\ outcome.kind = "return") =>
        /\ natural_language_question = question_arg
        /\ generated_query = outcome.value

\* C14: in a chat call the generator is called exactly once, before any
\* execution; the executions never exceed max_retries and the repair calls
\* never exceed the executions.
C14_CallCounts ==
    InChat =>
        /\ genCalls = 1
        /\ GenerateRequests = {1}
        /\ pc = "generate_wait" => execCalls = << >> /\ repairCalls = << >>
        /\ Len(execCalls) <= max_retries
        /\ Len(execErrors) <= Len(execCalls)
        /\ Len(repairCalls) <= Len(execErrors)

C14_Witness ==
    /\ ChatEnded
    /\ max_retries = MaxRetries
    /\ Len(execCalls) = MaxRetries
    /\ Len(repairCalls) = MaxRetries
    /\ GenerateRequests = {1}

(***************************************************************************)
(* The loop's exits.                                                       *)
(***************************************************************************)
\* the last repair call of this chat call failed: no context, or the gate
\* rejected the completion
RepairFailed ==
    /\ InChat
    /\ repairCalls # << >>
    /\ \/ ~Last(repairCalls).ok
       \/ Len(repairResults) = Len(repairCalls) /\ ~Last(repairResults)

SuccessfulRepairs == Cardinality({ i \in 1..Len(repairResults) : repairResults[i] })

\* the formatted results of a bundle, under the key the bundle has
BundleResults(b) == IF "results" \in DOMAIN b THEN b.results ELSE b.result

GaveUpBundle ==
    /\ ReturnedBundle
    /\ outcome.value.query = Last(execCalls)
    /\ BundleResults(outcome.value) = NoResults
    /\ outcome.value.retries = SuccessfulRepairs

\* C15 as stated: after a failed repair call chat executes and repairs
\* nothing more, does not raise, leaves the counter at the number of earlier
\* successful repairs, and returns a bundle with the SQL whose execution just
\* failed, the no-results sentinel and that number as retries (read on a
\* connected session).
C15_GiveUpReturns ==
    (RepairFailed /\ engine) =>
        /\ pc \in {"human_wait", "done"}
        /\ Len(execCalls) = Len(repairCalls)
        /\ count_tries = SuccessfulRepairs
        /\ pc = "done" => GaveUpBundle

\* C15 amended: as stated, except that when a human answer was requested and
\* the question is empty, generate_human_response raises its missing-question
\* error instead of a bundle being returned; the exhausted-retries error is
\* never raised on this path.
C15_GiveUpReturnsOrHumanRaises ==
    RepairFailed =>
        /\ pc \in {"human_wait", "done"}
        /\ Len(execCalls) = Len(repairCalls)
        /\ count_tries = SuccessfulRepairs
        /\ count_tries < max_retries
        /\ ~RaisedExhausted
        /\ pc = "done" =>
              IF human_response /\ ~Truthy(question_arg)
              THEN outcome = Raise("question missing", << >>)
              ELSE GaveUpBundle

C15_Witness ==
    /\ RepairFailed
    /\ ChatEnded
    /\ GaveUpBundle
    /\ human_response
    /\ outcome.value.retries = 1
    /\ Last(execCalls) # execCalls[1]

\* C16: every successful repair is followed, before the chat call ends, by an
\* execution of the repaired query: the i-th repair that succeeded has an
\* (i+1)-th execution after it (read on a connected session with a question).
C16_RepairThenExecution ==
    (ChatEnded /\ engine /\ question_arg # "") =>
        \A i \in 1..Len(repairResults) :
            repairResults[i] => Len(execCalls) >= i + 1

\* C17: every repair call of a chat call is preceded by a failed execution
\* with no other execution in between, and the error it is given (and the one
\* in its prompt) is that execution's error: the i-th repair call follows the
\* i-th execution, which returned a non-empty error, before any (i+1)-th one.
C17_RepairAfterFailedExecution ==
    InChat =>
        /\ Len(repairCalls) <= Len(execErrors)
        /\ Len(execCalls) <= Len(repairCalls) + 1
        /\ pc = "fix_wait" =>
              /\ Len(execCalls) = Len(repairCalls)
              /\ Len(execErrors) = Len(repairCalls)
        /\ \A i \in 1..Len(repairCalls) :
              /\ Truthy(execErrors[i])
              /\ repairCalls[i].error = execErrors[i]
              /\ repairCalls[i].executed = execCalls[i]
              /\ repairCalls[i].ok =>
                    /\ llmCalls[i + 1].kind = "fix"
                    /\ llmCalls[i + 1].error = execErrors[i]

C17_Witness ==
    /\ InChat
    /\ Len(repairCalls) = 2
    /\ repairCalls[1].error = "e1"
    /\ repairCalls[2].error = "e2"
    /\ llmCalls[3].error = "e2"

\* C18: during a chat call the retry counter stays within 0..max_retries,
\* never decreases, and every change is an increment by one made while the
\* error of the execution that just failed is held.
C18_RetryCounter ==
    /\ [](InChat => (count_tries \in Nat /\ count_tries <= max_retries))
    /\ [][(InChat /\ pc \notin {"idle", "done"}) =>
             \/ count_tries' = count_tries
             \/ /\ count_tries' = count_tries + 1
                /\ pc = "fix_wait"
                /\ Truthy(error)
                /\ error = Last(execErrors)
                /\ Len(execErrors) = count_tries + 1]_vars

C18_Witness ==
    /\ InChat
    /\ pc = "done"
    /\ count_tries = MaxRetries
    /\ max_retries = MaxRetries

\* chat is inside its retry loop, waiting for an execution or a repair
InLoop == InChat /\ pc \in {"execute_wait", "fix_wait"}

\* chat has left its retry loop
LoopExited == GenerationSucceeded /\ pc \in {"human_wait", "done"}

LastExecutionSucceeded ==
    /\ execErrors # << >>
    /\ Len(execErrors) = Len(execCalls)
    /\ ~Truthy(Last(execErrors))

ExitCondition ==
    \/ count_tries = max_retries
    \/ LastExecutionSucceeded
    \/ RepairFailed

\* C19: when every backend and database call returns, every chat call ends,
\* and the retry loop is left exactly when the counter has reached
\* max_retries, or an execution succeeded, or a repair call failed.
C19_Termination ==
    /\ [](LoopExited => ExitCondition)
    /\ [](InLoop => ~ExitCondition)
    /\ (InChat /\ pc # "done") ~> (InChat /\ pc = "done")

C19_Witness ==
    /\ LoopExited
    /\ pc = "done"
    /\ count_tries = max_retries
    /\ max_retries = MaxRetries
    /\ ~LastExecutionSucceeded
    /\ ~RepairFailed

\* C20: when chat returns a bundle with a human-readable answer, the query
\* its human-response prompt names as the executed one is the bundle's query,
\* the last query generated in the call (read on a connected session with a
\* question, and up to the cleaning and gating of the prompt's text).
C20_HumanPromptQuery ==
    (ChatEnded /\ engine /\ question_arg # "" /\ ReturnedBundle
        /\ "answer" \in DOMAIN outcome.value) =>
        /\ Last(llmCalls).kind = "human"
        /\ is_safe_query(clear_llm_response(Last(llmCalls).sql_query)).value
              = outcome.value.query

(***************************************************************************)
(* max_retries = 0.                                                        *)
(***************************************************************************)
\* the generator's output as chat receives it from generate_sql
GeneratedQuery == is_safe_query(clear_llm_response(generated_query)).value

ZeroBudgetBundle ==
    /\ ReturnedBundle
    /\ outcome.value.query = GeneratedQuery
    /\ BundleResults(outcome.value) = NoResults
    /\ outcome.value.retries = 0

\* C21 as stated: with max_retries = 0 and a successful generation chat makes
\* no execution and no repair call, does not raise the exhausted-retries
\* error, and returns a bundle with the generated query, the no-results
\* sentinel and retries = 0 (read on a connected session).
C21_ZeroBudgetReturns ==
    (GenerationSucceeded /\ max_retries = 0 /\ engine) =>
        /\ execCalls = << >>
        /\ repairCalls = << >>
        /\ ~RaisedExhausted
        /\ pc = "done" => ZeroBudgetBundle

\* C21 amended: as stated, except that when a human answer was requested and
\* the question is empty, generate_human_response raises its missing-question
\* error instead of a bundle being returned.
C21_ZeroBudgetReturnsOrHumanRaises ==
    (GenerationSucceeded /\ max_retries = 0) =>
        /\ execCalls = << >>
        /\ execErrors = << >>
        /\ repairCalls = << >>
        /\ count_tries = 0
        /\ ~RaisedExhausted
        /\ pc \in {"human_wait", "done"}
        /\ pc = "done" =>
              IF human_response /\ ~Truthy(question_arg)
              THEN outcome = Raise("question missing", << >>)
              ELSE ZeroBudgetBundle

C21_Witness ==
    /\ ChatEnded
    /\ GenerationSucceeded
    /\ max_retries = 0
    /\ engine
    /\ ~human_response
    /\ ZeroBudgetBundle
    /\ outcome.value.query = Str_a

====
